---- MODULE Spec2Model ----
(***************************************************************************)
(* Model of src/main.py: the Autoclass/ARCHIVE bucket migrator.            *)
(*                                                                         *)
(*   retry_with_backoff(retries=5)   the retry decorator (lines 20-36)     *)
(*   process_bucket                  the single-row update (lines 40-91)   *)
(*   process_csv                     the batch over a worker pool (95-117) *)
(*                                                                         *)
(* The remote storage service is the environment: a store of buckets, and  *)
(* every call to it (client construction, get_bucket, patch) either        *)
(* returns or raises one of the exception kinds below.                     *)
(***************************************************************************)
EXTENDS Integers, Sequences, FiniteSets, TLC

(* ------------------------------ bounds -------------------------------- *)
\* longest input CSV that is explored
MaxRows == 3
\* number of faults the environment injects into one batch
MaxFaults == 1
\* clock ticks in a second: the jitter of a sleep is a whole number of ticks
Resolution == 2

(* ------------------------- program constants -------------------------- *)
\* @retry_with_backoff(retries=5)
retries == 5
\* retry_with_backoff(..., backoff_in_seconds=1)
backoff_in_seconds == 1
\* ThreadPoolExecutor(max_workers=20), scaled down to 2 so that a batch of
\* MaxRows rows both runs updates concurrently and queues behind the pool
max_workers == 2

(* --------------------------- the environment -------------------------- *)
BucketNames == {"b1", "b2"}

\* the rows an input CSV can hold: (GOOGLE_PROJECT_ID, BUCKET_NAME)
Identities ==
    { [project_id |-> "p1", bucket_name |-> "b1"],
      [project_id |-> "p2", bucket_name |-> "b2"] }

\* exception classes named by the except clauses of line 27
TransientErrors == {"TooManyRequests", "InternalServerError", "ServiceUnavailable"}
\* other google.api_core errors a call can raise
TerminalErrors == {"NotFound", "Forbidden"}
\* exceptions that are not GoogleAPIError
UnexpectedErrors == {"DefaultCredentialsError", "ConnectionError"}
Errors == TransientErrors \cup TerminalErrors \cup UnexpectedErrors

\* the properties of a bucket that do not take part in the migration
StaticFields(b) ==
    IF b = "b1"
    THEN [storage_class |-> "STANDARD", location |-> "US",
          location_type |-> "multi-region", requester_pays |-> FALSE]
    ELSE [storage_class |-> "COLDLINE", location |-> "EUROPE-WEST1",
          location_type |-> "region", requester_pays |-> TRUE]

RemoteBucket(b, en, term) ==
    [exists |-> TRUE,
     storage_class |-> StaticFields(b).storage_class,
     location |-> StaticFields(b).location,
     location_type |-> StaticFields(b).location_type,
     autoclass_enabled |-> en,
     autoclass_terminal_storage_class |-> term,
     requester_pays |-> StaticFields(b).requester_pays]

\* a bucket name the service does not know
AbsentBucket ==
    [exists |-> FALSE, storage_class |-> "", location |-> "",
     location_type |-> "", autoclass_enabled |-> FALSE,
     autoclass_terminal_storage_class |-> "", requester_pays |-> FALSE]

\* the k-th of the five states a bucket name can be in at the service:
\* the four combinations of the two Autoclass properties, and not existing
StateAt(b, k) ==
    CASE k = 1 -> RemoteBucket(b, FALSE, "NEARLINE")
      [] k = 2 -> RemoteBucket(b, TRUE, "NEARLINE")
      [] k = 3 -> RemoteBucket(b, FALSE, "ARCHIVE")
      [] k = 4 -> RemoteBucket(b, TRUE, "ARCHIVE")
      [] OTHER -> AbsentBucket

\* a state of the service: b1 in its k-th state and b2 four states further,
\* so that over k each bucket is in each of its states and the two differ
RemoteAt(k) ==
    [b \in BucketNames |->
        IF b = "b1" THEN StateAt(b, k) ELSE StateAt(b, ((k + 3) % 5) + 1)]

\* the states the service can be in when the batch starts
Remotes == { RemoteAt(k) : k \in 1..5 }

(* ------------------------------ state --------------------------------- *)
VARIABLES
    rows,        \* df: the input rows, in file order
    remote,      \* the storage service: bucket name -> bucket
    mainpc,      \* position of process_csv: submit, collect, done
    nsub,        \* number of futures submitted so far
    pc,          \* per future: unsubmitted, queued, fetch, patch, done
    attempt,     \* per future: wrapper's attempt counter
    bucket,      \* per future: the local Bucket object of process_bucket
    response,    \* per future: the local response dict of process_bucket
    outcome,     \* per future: what the future holds (result or exception)
    fetchCalls,  \* per future: get_bucket calls issued
    patchCalls,  \* per future: patch calls issued
    raised,      \* per future: the exceptions its remote calls raised
    sleeps,      \* per future: attempt indices the wrapper slept for
    delays,      \* per future: the sleep_time of each sleep, in ticks
    calls,       \* per future: calls of func made by the wrapper
    collected,   \* futures that as_completed has yielded
    results,     \* the results list of process_csv
    report,      \* the rows written to the output CSV
    nwritten,    \* number of times the output CSV was written
    faults       \* faults injected so far

vars == <<rows, remote, mainpc, nsub, pc, attempt, bucket, response, outcome,
          fetchCalls, patchCalls, raised, sleeps, delays, calls, collected,
          results, report, nwritten, faults>>

Futures == 1..Len(rows)

(* --------------------------- process_bucket --------------------------- *)
\* the Bucket object get_bucket returns: the properties process_bucket reads
BucketObject(rb) ==
    [storage_class |-> rb.storage_class,
     location |-> rb.location,
     location_type |-> rb.location_type,
     autoclass_enabled |-> rb.autoclass_enabled,
     autoclass_terminal_storage_class |-> rb.autoclass_terminal_storage_class,
     requester_pays |-> rb.requester_pays]

\* value of the locals bucket and response before the fetch returned
NoBucket == BucketObject(AbsentBucket)

\* response (lines 51-59): the identity and the properties as fetched
MakeResponse(row, bk) ==
    [project_id |-> row.project_id,
     bucket_name |-> row.bucket_name,
     storage_class |-> bk.storage_class,
     location |-> bk.location,
     location_type |-> bk.location_type,
     autoclass_enabled |-> bk.autoclass_enabled,
     autoclass_terminal_storage_class |-> bk.autoclass_terminal_storage_class,
     requester_pays |-> bk.requester_pays]

NoResponse == MakeResponse([project_id |-> "", bucket_name |-> ""], NoBucket)

\* lines 62-65 without the assignment of line 63
EnableAutoclass_Forgotten(bk) == bk

\* lines 62-65: enable Autoclass on the local object when it is off
EnableAutoclass(bk) ==
    IF ~ bk.autoclass_enabled
    THEN [bk EXCEPT !.autoclass_enabled = TRUE]
    ELSE bk

\* lines 68-71 without the assignment of line 69
SetTerminalArchive_Forgotten(bk) == bk

\* lines 68-71: set the terminal storage class on the local object
SetTerminalArchive(bk) ==
    IF ~ (bk.autoclass_terminal_storage_class = "ARCHIVE")
    THEN [bk EXCEPT !.autoclass_terminal_storage_class = "ARCHIVE"]
    ELSE bk

\* the test of line 62 without its "not"
migrated_NoNegation(bk) ==
    bk.autoclass_enabled \/ ~ (bk.autoclass_terminal_storage_class = "ARCHIVE")

\* the local flag migrated after lines 62-71
migrated(bk) ==
    (~ bk.autoclass_enabled) \/ ~ (bk.autoclass_terminal_storage_class = "ARCHIVE")

\* a Migrated row that is given the values just written to the bucket
WithStatus_ShowMigrated(resp, status) ==
    [project_id |-> resp.project_id,
     bucket_name |-> resp.bucket_name,
     storage_class |-> resp.storage_class,
     location |-> resp.location,
     location_type |-> resp.location_type,
     autoclass_enabled |->
        IF status = "Migrated" THEN TRUE ELSE resp.autoclass_enabled,
     autoclass_terminal_storage_class |->
        IF status = "Migrated" THEN "ARCHIVE"
        ELSE resp.autoclass_terminal_storage_class,
     requester_pays |-> resp.requester_pays,
     migration_status |-> status]

\* {**response, "migration_status": status} (lines 75 and 78)
WithStatus(resp, status) ==
    [project_id |-> resp.project_id,
     bucket_name |-> resp.bucket_name,
     storage_class |-> resp.storage_class,
     location |-> resp.location,
     location_type |-> resp.location_type,
     autoclass_enabled |-> resp.autoclass_enabled,
     autoclass_terminal_storage_class |-> resp.autoclass_terminal_storage_class,
     requester_pays |-> resp.requester_pays,
     migration_status |-> status]

\* f"Error: {str(e)}" (line 90)
ErrorStatus(e) == "Error: " \o e

\* an except branch that reports the update as done
ErrorResult_Migrated(row, e) ==
    WithStatus(MakeResponse(row, NoBucket), "Migrated")

\* the dict returned by the except GoogleAPIError branch (lines 82-91)
ErrorResult(row, e) ==
    [project_id |-> row.project_id,
     bucket_name |-> row.bucket_name,
     storage_class |-> "",
     location |-> "",
     location_type |-> "",
     autoclass_enabled |-> FALSE,
     autoclass_terminal_storage_class |-> "",
     requester_pays |-> FALSE,
     migration_status |-> ErrorStatus(e)]

\* a patch that also sends billing.requesterPays = false
PatchedBucket_ResetsRequesterPays(rb, bk) ==
    [rb EXCEPT !.autoclass_enabled = bk.autoclass_enabled,
               !.autoclass_terminal_storage_class =
                    bk.autoclass_terminal_storage_class,
               !.requester_pays = FALSE]

\* a patch that sends autoclass.enabled alone
PatchedBucket_EnabledOnly(rb, bk) ==
    [rb EXCEPT !.autoclass_enabled = bk.autoclass_enabled]

\* bucket.patch() (line 77): saves the autoclass properties of the local
\* object to the service; the other properties of the bucket are not sent
PatchedBucket(rb, bk) ==
    [rb EXCEPT !.autoclass_enabled = bk.autoclass_enabled,
               !.autoclass_terminal_storage_class =
                    bk.autoclass_terminal_storage_class]

\* an inner handler that lets the three transient classes through
IsGoogleAPIError_TerminalOnly(e) == e \in TerminalErrors

\* an inner handler that catches the three transient classes only
IsGoogleAPIError_TransientOnly(e) == e \in TransientErrors

\* except GoogleAPIError (line 80): the transient classes of line 27 are
\* subclasses of GoogleAPIError, as are NotFound and Forbidden
IsGoogleAPIError(e) == e \in TransientErrors \cup TerminalErrors

\* except (TooManyRequests, InternalServerError, ServiceUnavailable) (line 27)
IsRetryable(e) == e \in TransientErrors

\* where an exception that reaches the wrapper ends (lines 25-31)
WrapperDisposition(e) ==
    IF IsRetryable(e) THEN "retry" ELSE "propagate"

\* where an exception raised inside the try block of process_bucket ends:
\* the inner handler (line 80) sees it before the wrapper's (line 27)
Disposition(e) ==
    IF IsGoogleAPIError(e) THEN "return_error"
    ELSE WrapperDisposition(e)

(* ------------------------- what a future holds ------------------------ *)
NoOutcome == [kind |-> "none", value |-> WithStatus(NoResponse, ""), msg |-> ""]
Returned(r) == [kind |-> "result", value |-> r, msg |-> ""]
Raised(m) == [kind |-> "exception", value |-> WithStatus(NoResponse, ""), msg |-> m]

\* raise Exception(f"Failed after {retries} retries") (line 32)
FailedAfterRetries == "Failed after 5 retries"

\* a loop test that admits one attempt too many
LoopContinues_OffByOne(att) == att <= retries

\* while attempt < retries (line 24)
LoopContinues(att) == att < retries

(* ------------------------------- Init --------------------------------- *)
\* the i-th row of the input files explored: the two buckets alternate, so
\* that a file of three rows names two different buckets and one bucket twice
RowAt(i) ==
    IF i % 2 = 1
    THEN [project_id |-> "p1", bucket_name |-> "b1"]
    ELSE [project_id |-> "p2", bucket_name |-> "b2"]

\* df = pd.read_csv(file_path): input files of 0 to MaxRows rows
InputFiles ==
    { [i \in 1..n |-> RowAt(i)] : n \in 0..MaxRows }

\* every future not yet submitted, nothing collected, nothing written
Fresh ==
    /\ nsub = 0
    /\ pc = [i \in Futures |-> "unsubmitted"]
    /\ attempt = [i \in Futures |-> 0]
    /\ bucket = [i \in Futures |-> NoBucket]
    /\ response = [i \in Futures |-> NoResponse]
    /\ outcome = [i \in Futures |-> NoOutcome]
    /\ fetchCalls = [i \in Futures |-> 0]
    /\ patchCalls = [i \in Futures |-> 0]
    /\ raised = [i \in Futures |-> <<>>]
    /\ sleeps = [i \in Futures |-> <<>>]
    /\ delays = [i \in Futures |-> <<>>]
    /\ calls = [i \in Futures |-> 0]
    /\ collected = {}
    /\ results = <<>>
    /\ report = <<>>
    /\ nwritten = 0
    /\ faults = 0

\* process_csv is called on an input file (lines 95-97)
Init ==
    /\ rows \in InputFiles
    /\ remote \in Remotes
    /\ mainpc = IF Len(rows) = 0 THEN "collect" ELSE "submit"
    /\ Fresh

(* ----------------------------- process_csv ---------------------------- *)
Running == { i \in Futures : pc[i] \in {"fetch", "patch"} }
Queued == { i \in Futures : pc[i] = "queued" }

\* executor.submit for the next row (lines 101-104)
Submit ==
    /\ mainpc = "submit"
    /\ nsub < Len(rows)
    /\ nsub' = nsub + 1
    /\ pc' = [pc EXCEPT ![nsub + 1] = "queued"]
    /\ mainpc' = IF nsub + 1 = Len(rows) THEN "collect" ELSE "submit"
    /\ UNCHANGED <<calls, delays, rows, remote, attempt, bucket, response, outcome,
                   fetchCalls, patchCalls, raised, sleeps, collected, results,
                   report, nwritten, faults>>

\* the wrapper's loop test and what follows it (lines 24-26 and 32): either
\* func is called once more or the wrapper raises
WrapperLoop(i, att) ==
    IF LoopContinues(att)
    THEN /\ pc' = [pc EXCEPT ![i] = "fetch"]
         /\ calls' = [calls EXCEPT ![i] = @ + 1]
         /\ outcome' = outcome
    ELSE /\ pc' = [pc EXCEPT ![i] = "done"]
         /\ calls' = calls
         /\ outcome' = [outcome EXCEPT ![i] = Raised(FailedAfterRetries)]

\* a pool that starts a thread for every work item
WorkerIdle_Unbounded == TRUE

\* ThreadPoolExecutor(max_workers=...): a work item is taken only by one of
\* the max_workers threads, so only while fewer than that many are busy
WorkerIdle == Cardinality(Running) < max_workers

\* a pool thread takes the oldest queued work item and calls the wrapper
StartTask(i) ==
    /\ pc[i] = "queued"
    /\ WorkerIdle
    /\ \A j \in Queued : i <= j
    /\ attempt' = [attempt EXCEPT ![i] = 0]
    /\ WrapperLoop(i, 0)
    /\ UNCHANGED <<delays, rows, remote, mainpc, nsub, bucket, response, fetchCalls,
                   patchCalls, raised, sleeps, collected, results, report,
                   nwritten, faults>>

\* 2 ** n
RECURSIVE Pow2(_)
Pow2(n) == IF n = 0 THEN 1 ELSE 2 * Pow2(n - 1)

\* random.uniform(0, 1) in ticks
Jitters == 0..(Resolution - 1)

\* a jitter that is scaled by the backoff instead of added to it
sleep_time_ScaledJitter(att, jit) ==
    (backoff_in_seconds * Pow2(att) * jit)

\* sleep_time (line 29) in ticks:
\* backoff_in_seconds * (2 ** attempt) + random.uniform(0, 1)
sleep_time(att, jit) ==
    (backoff_in_seconds * Pow2(att) * Resolution) + jit

\* an exception raised by func ends as disp says (lines 27-32, 80-91):
\* returned as an error row by process_bucket, slept on and retried by the
\* wrapper, or propagated to the caller of the wrapper
Handle(i, e, disp) ==
    /\ raised' = [raised EXCEPT ![i] = Append(@, e)]
    /\ CASE disp = "return_error" ->
              /\ pc' = [pc EXCEPT ![i] = "done"]
              /\ outcome' = [outcome EXCEPT ![i] = Returned(ErrorResult(rows[i], e))]
              /\ UNCHANGED <<attempt, sleeps, delays, calls, bucket, response>>
         [] disp = "retry" ->
              /\ sleeps' = [sleeps EXCEPT ![i] = Append(@, attempt[i])]
              /\ \E jit \in Jitters :
                    delays' = [delays EXCEPT ![i] =
                                  Append(@, sleep_time(attempt[i], jit))]
              /\ attempt' = [attempt EXCEPT ![i] = @ + 1]
              /\ bucket' = [bucket EXCEPT ![i] = NoBucket]
              /\ response' = [response EXCEPT ![i] = NoResponse]
              /\ WrapperLoop(i, attempt[i] + 1)
         [] OTHER ->
              /\ pc' = [pc EXCEPT ![i] = "done"]
              /\ outcome' = [outcome EXCEPT ![i] = Raised(e)]
              /\ UNCHANGED <<attempt, sleeps, delays, calls, bucket, response>>

\* a call inside the try block of process_bucket raised e
OnRaise(i, e) == Handle(i, e, Disposition(e))

\* faults the service or the transport can inject into get_bucket and patch
CallFaults == Errors \ {"NotFound", "DefaultCredentialsError"}

\* a lookup that answers with the bucket another thread asked for
get_bucket_OtherBucket(rem, name) ==
    IF name = "b1" THEN rem["b2"] ELSE rem["b1"]

\* client.get_bucket(bucket_name) (line 48): the bucket of that name
get_bucket(rem, name) == rem[name]

\* lines 47-75: build the client, fetch the bucket, take the snapshot, set
\* the two properties on the local object and return Skipped if none changed
Fetch(i) ==
    /\ pc[i] = "fetch"
    /\ \/ \* storage.Client(project=...) finds no credentials
          /\ faults < MaxFaults
          /\ faults' = faults + 1
          /\ OnRaise(i, "DefaultCredentialsError")
          /\ UNCHANGED <<fetchCalls>>
       \/ \* get_bucket of a name the service does not know
          /\ ~ get_bucket(remote, rows[i].bucket_name).exists
          /\ fetchCalls' = [fetchCalls EXCEPT ![i] = @ + 1]
          /\ OnRaise(i, "NotFound")
          /\ UNCHANGED <<faults>>
       \/ \* get_bucket fails
          /\ faults < MaxFaults
          /\ faults' = faults + 1
          /\ fetchCalls' = [fetchCalls EXCEPT ![i] = @ + 1]
          /\ \E e \in CallFaults : OnRaise(i, e)
       \/ \* get_bucket returns
          /\ get_bucket(remote, rows[i].bucket_name).exists
          /\ fetchCalls' = [fetchCalls EXCEPT ![i] = @ + 1]
          /\ LET fetched == BucketObject(get_bucket(remote, rows[i].bucket_name))
                 resp == MakeResponse(rows[i], fetched)
             IN  /\ response' = [response EXCEPT ![i] = resp]
                 /\ bucket' = [bucket EXCEPT ![i] =
                                  SetTerminalArchive(EnableAutoclass(fetched))]
                 /\ IF ~ migrated(fetched)
                    THEN /\ pc' = [pc EXCEPT ![i] = "done"]
                         /\ outcome' = [outcome EXCEPT ![i] =
                                           Returned(WithStatus(resp, "Skipped"))]
                    ELSE /\ pc' = [pc EXCEPT ![i] = "patch"]
                         /\ outcome' = outcome
          /\ UNCHANGED <<attempt, raised, sleeps, delays, calls, faults>>
    /\ UNCHANGED <<rows, remote, mainpc, nsub, patchCalls, collected, results,
                   report, nwritten>>

\* lines 77-78: bucket.patch() and the Migrated result; a patch that raises
\* is taken to have changed nothing at the service
Patch(i) ==
    /\ pc[i] = "patch"
    /\ patchCalls' = [patchCalls EXCEPT ![i] = @ + 1]
    /\ \/ /\ remote' = [remote EXCEPT ![rows[i].bucket_name] =
                           PatchedBucket(@, bucket[i])]
          /\ pc' = [pc EXCEPT ![i] = "done"]
          /\ outcome' = [outcome EXCEPT ![i] =
                            Returned(WithStatus(response[i], "Migrated"))]
          /\ UNCHANGED <<attempt, raised, sleeps, delays, calls, bucket, response,
                         faults>>
       \/ /\ faults < MaxFaults
          /\ faults' = faults + 1
          /\ \E e \in CallFaults : OnRaise(i, e)
          /\ UNCHANGED <<remote>>
    /\ UNCHANGED <<rows, mainpc, nsub, fetchCalls, collected, results, report,
                   nwritten>>

\* results = [result] in place of results.append(result)
CollectInto_Overwrite(res, o) ==
    IF o.kind = "result" THEN <<o.value>> ELSE res

\* an error row appended for a future that raised
CollectInto_AppendOnRaise(res, o) ==
    IF o.kind = "result"
    THEN Append(res, o.value)
    ELSE Append(res, WithStatus(NoResponse, ErrorStatus(o.msg)))

\* results.append(result) inside the try of lines 108-112: an exception held
\* by the future is logged and nothing is appended
CollectInto(res, o) ==
    IF o.kind = "result" THEN Append(res, o.value) ELSE res

\* future.result() outside any try: the exception ends process_csv
AfterCollect_NoTry(o) == IF o.kind = "exception" THEN "crashed" ELSE "collect"

\* where process_csv stands after one iteration of the as_completed loop:
\* except Exception (line 111) keeps the loop going
AfterCollect(o) == "collect"

\* one iteration of the as_completed loop (lines 107-112)
Collect(i) ==
    /\ mainpc = "collect"
    /\ pc[i] = "done"
    /\ i \notin collected
    /\ collected' = collected \cup {i}
    /\ results' = CollectInto(results, outcome[i])
    /\ mainpc' = AfterCollect(outcome[i])
    /\ UNCHANGED <<calls, delays, rows, remote, nsub, pc, attempt, bucket, response, outcome,
                   fetchCalls, patchCalls, raised, sleeps, report, nwritten,
                   faults>>

\* the report written as soon as one future has been collected
LoopExhausted_AfterFirst == collected /= {} \/ Futures = {}

\* as_completed(futures) has yielded every future (line 107) and the with
\* block has shut the pool down
LoopExhausted == collected = Futures

\* lines 115-117: the loop is exhausted, the pool is shut down and the
\* results are written to the output CSV
WriteReport ==
    /\ mainpc = "collect"
    /\ LoopExhausted
    /\ report' = results
    /\ nwritten' = nwritten + 1
    /\ mainpc' = "done"
    /\ UNCHANGED <<calls, delays, rows, remote, nsub, pc, attempt, bucket, response, outcome,
                   fetchCalls, patchCalls, raised, sleeps, collected, results,
                   faults>>

Next ==
    \/ Submit
    \/ \E i \in Futures : StartTask(i)
    \/ \E i \in Futures : Fetch(i)
    \/ \E i \in Futures : Patch(i)
    \/ \E i \in Futures : Collect(i)
    \/ WriteReport

Spec == Init /\ [][Next]_vars

(* ---------------------- vocabulary of the properties ------------------ *)
Done(i) == pc[i] = "done"
HasResult(i) == Done(i) /\ outcome[i].kind = "result"
HasException(i) == Done(i) /\ outcome[i].kind = "exception"
Status(i) == outcome[i].value.migration_status

StartsWith(s, prefix) ==
    Len(s) >= Len(prefix) /\ SubSeq(s, 1, Len(prefix)) = prefix

ValidStatus(s) == s \in {"Migrated", "Skipped"} \/ StartsWith(s, "Error: ")

\* the last call of process_bucket for future i got its bucket from get_bucket
Fetched(i) == response[i] /= NoResponse

\* the state fetched for future i is already Autoclass with ARCHIVE
FetchedMigrated(i) ==
    /\ Fetched(i)
    /\ response[i].autoclass_enabled
    /\ response[i].autoclass_terminal_storage_class = "ARCHIVE"

FetchedUnmigrated(i) == Fetched(i) /\ ~ FetchedMigrated(i)

IdentityOf(r) == [project_id |-> r.project_id, bucket_name |-> r.bucket_name]

Count(seq, r) == Cardinality({k \in 1..Len(seq) : seq[k] = r})

BatchDone == mainpc = "done"

(* ------------------------------- C1 ----------------------------------- *)
\* C1: the results never outnumber the input rows; when process_csv has
\* finished and no future raised, the report has as many rows as the input,
\* every identity is carried by as many report rows as input rows, and every
\* status is Migrated, Skipped or starts with "Error: ".
C1_OneResultPerRow ==
    /\ Len(results) <= Len(rows)
    /\ Len(report) <= Len(rows)
    /\ (BatchDone /\ \A i \in Futures : ~ HasException(i)) =>
          /\ Len(report) = Len(rows)
          /\ \A id \in Identities :
                Cardinality({k \in 1..Len(report) : IdentityOf(report[k]) = id})
                  = Cardinality({i \in Futures : rows[i] = id})
          /\ \A k \in 1..Len(report) : ValidStatus(report[k].migration_status)

C1_Witness ==
    /\ BatchDone
    /\ Len(rows) >= 2
    /\ \A i \in Futures : ~ HasException(i)
    /\ \E i, j \in Futures :
          /\ Status(i) = "Migrated"
          /\ StartsWith(Status(j), "Error: ")
    /\ \E k \in 1..Len(report) : report[k] /= outcome[k].value

(* ------------------------------- C2 ----------------------------------- *)
\* C2: a call of process_bucket that fetched a bucket with Autoclass enabled
\* and terminal class ARCHIVE has returned Skipped, has issued no patch, and
\* the snapshot it returned is the bucket as the service holds it.
C2_SkipAlreadyMigrated ==
    \A i \in Futures :
       FetchedMigrated(i) =>
          /\ HasResult(i)
          /\ Status(i) = "Skipped"
          /\ patchCalls[i] = 0
          /\ outcome[i].value.storage_class = remote[rows[i].bucket_name].storage_class
          /\ outcome[i].value.location = remote[rows[i].bucket_name].location
          /\ outcome[i].value.location_type = remote[rows[i].bucket_name].location_type
          /\ outcome[i].value.requester_pays = remote[rows[i].bucket_name].requester_pays
          /\ outcome[i].value.autoclass_enabled = TRUE
          /\ outcome[i].value.autoclass_terminal_storage_class = "ARCHIVE"
          /\ remote[rows[i].bucket_name].autoclass_enabled = TRUE
          /\ remote[rows[i].bucket_name].autoclass_terminal_storage_class = "ARCHIVE"

C2_Witness ==
    \E i \in Futures : FetchedMigrated(i) /\ Status(i) = "Skipped"

(* ------------------------------- C3 ----------------------------------- *)
\* C3: a completed call of process_bucket that fetched a bucket with
\* Autoclass off or a terminal class other than ARCHIVE has issued exactly one
\* patch; if no call raised, its status is Migrated; and once it reports
\* Migrated the service holds the bucket with Autoclass on and ARCHIVE.
C3_OnePatchSetsBoth ==
    \A i \in Futures :
       /\ patchCalls[i] <= 1
       /\ (Done(i) /\ FetchedUnmigrated(i)) =>
             /\ patchCalls[i] = 1
             /\ (raised[i] = <<>>) => (HasResult(i) /\ Status(i) = "Migrated")
             /\ (HasResult(i) /\ Status(i) = "Migrated") =>
                   /\ remote[rows[i].bucket_name].autoclass_enabled = TRUE
                   /\ remote[rows[i].bucket_name].autoclass_terminal_storage_class
                        = "ARCHIVE"

C3_Witness ==
    \E i \in Futures :
       /\ Done(i)
       /\ Fetched(i)
       /\ response[i].autoclass_enabled
       /\ response[i].autoclass_terminal_storage_class = "NEARLINE"
       /\ Status(i) = "Migrated"
       /\ patchCalls[i] = 1

(* ------------------------------- C5 ----------------------------------- *)
\* the update of future i fetched its bucket with Autoclass off, no call
\* raised, and it returned
MigratedFromDisabled(i) ==
    /\ HasResult(i)
    /\ Fetched(i)
    /\ ~ response[i].autoclass_enabled
    /\ raised[i] = <<>>

\* C5 as stated: a row whose bucket was fetched with Autoclass off and whose
\* update succeeded is reported as Migrated with autoclass_enabled true and
\* terminal class ARCHIVE.
C5_ReportShowsMigratedValues ==
    \A i \in Futures :
       MigratedFromDisabled(i) =>
          /\ Status(i) = "Migrated"
          /\ outcome[i].value.autoclass_enabled = TRUE
          /\ outcome[i].value.autoclass_terminal_storage_class = "ARCHIVE"

\* C5 as amended: such a row is reported as Migrated with the snapshot as
\* fetched before the patch, autoclass_enabled false and the terminal class
\* the bucket had; the bucket at the service is the one that has Autoclass on
\* and ARCHIVE.
C5_ReportShowsFetchedValues ==
    \A i \in Futures :
       MigratedFromDisabled(i) =>
          /\ Status(i) = "Migrated"
          /\ outcome[i].value.autoclass_enabled = FALSE
          /\ outcome[i].value.autoclass_terminal_storage_class
               = response[i].autoclass_terminal_storage_class
          /\ outcome[i].value.project_id = rows[i].project_id
          /\ outcome[i].value.bucket_name = rows[i].bucket_name
          /\ remote[rows[i].bucket_name].autoclass_enabled = TRUE
          /\ remote[rows[i].bucket_name].autoclass_terminal_storage_class = "ARCHIVE"

C5_Witness ==
    \E i \in Futures :
       /\ MigratedFromDisabled(i)
       /\ Status(i) = "Migrated"
       /\ outcome[i].value.autoclass_terminal_storage_class = "NEARLINE"
       /\ remote[rows[i].bucket_name].autoclass_terminal_storage_class = "ARCHIVE"

(* ------------------- process_bucket called twice in a row ------------- *)
\* a caller that invokes process_bucket for rows[1] and, once that call has
\* returned or raised, for rows[2]; both rows name the same bucket
SeqInit ==
    /\ rows \in { <<id, id>> : id \in Identities }
    /\ remote \in Remotes
    /\ mainpc = "seq"
    /\ Fresh

\* the call enters the wrapper (lines 22-26)
SeqCall(i) ==
    /\ mainpc = "seq"
    /\ pc[i] = "unsubmitted"
    /\ \A j \in Futures : j < i => pc[j] = "done"
    /\ attempt' = [attempt EXCEPT ![i] = 0]
    /\ WrapperLoop(i, 0)
    /\ UNCHANGED <<delays, rows, remote, mainpc, nsub, bucket, response, fetchCalls,
                   patchCalls, raised, sleeps, collected, results, report,
                   nwritten, faults>>

SeqNext ==
    \/ \E i \in Futures : SeqCall(i)
    \/ \E i \in Futures : Fetch(i)
    \/ \E i \in Futures : Patch(i)

SeqSpec == SeqInit /\ [][SeqNext]_vars

(* ------------------------------- C4 ----------------------------------- *)
\* C4: when process_bucket is run twice in sequence on a bucket that the
\* first run fetched unmigrated, and no call of either run raised, the first
\* run returns Migrated with one patch and the second returns Skipped with
\* no patch; the second run never reaches its patch once the first migrated.
C4_Idempotent ==
    /\ (HasResult(1) /\ Status(1) = "Migrated") =>
          (pc[2] /= "patch" /\ patchCalls[2] = 0)
    /\ (Done(1) /\ Done(2) /\ FetchedUnmigrated(1)
          /\ raised[1] = <<>> /\ raised[2] = <<>>) =>
             /\ HasResult(1) /\ Status(1) = "Migrated"
             /\ patchCalls[1] = 1
             /\ HasResult(2) /\ Status(2) = "Skipped"
             /\ patchCalls[2] = 0

C4_Witness ==
    /\ mainpc = "seq"
    /\ Done(1) /\ Done(2)
    /\ FetchedUnmigrated(1)
    /\ raised[1] = <<>> /\ raised[2] = <<>>
    /\ Status(1) = "Migrated"
    /\ Status(2) = "Skipped"

(* ------------------------------- C6 ----------------------------------- *)
AllTransient(i) == \A k \in 1..Len(raised[i]) : raised[i][k] \in TransientErrors

\* C6: an update whose remote calls raised nothing but transient errors, at
\* most 3 of them, has been retried past them and ends with the result of the
\* success path: status Migrated or Skipped.
C6_TransientRetriedToSuccess ==
    \A i \in Futures :
       (Done(i) /\ raised[i] /= <<>> /\ Len(raised[i]) <= 3 /\ AllTransient(i)) =>
          /\ attempt[i] = Len(raised[i])
          /\ HasResult(i)
          /\ Status(i) \in {"Migrated", "Skipped"}

(* ------------------------------- C7 ----------------------------------- *)
\* the only call of future i that raised is its fetch, with a terminal error
TerminalFetchError(i) ==
    /\ Len(raised[i]) = 1
    /\ raised[i][1] \in TerminalErrors
    /\ ~ Fetched(i)

\* C7: when the fetch raises NotFound or Forbidden the update is over after
\* that one fetch and no patch, its result carries the row's identity, a
\* status starting with "Error: " and an empty snapshot; and when the batch
\* is done the report holds that result and the result of every other row
\* that returned one.
C7_TerminalFetchError ==
    \A i \in Futures :
       TerminalFetchError(i) =>
          /\ HasResult(i)
          /\ fetchCalls[i] = 1
          /\ patchCalls[i] = 0
          /\ attempt[i] = 0
          /\ outcome[i].value.project_id = rows[i].project_id
          /\ outcome[i].value.bucket_name = rows[i].bucket_name
          /\ StartsWith(Status(i), "Error: ")
          /\ outcome[i].value.storage_class = ""
          /\ outcome[i].value.location = ""
          /\ outcome[i].value.location_type = ""
          /\ outcome[i].value.autoclass_enabled = FALSE
          /\ outcome[i].value.autoclass_terminal_storage_class = ""
          /\ outcome[i].value.requester_pays = FALSE
          /\ BatchDone =>
                \A j \in Futures :
                   HasResult(j) => \E k \in 1..Len(report) : report[k] = outcome[j].value

C7_Witness ==
    /\ BatchDone
    /\ \E i, j \in Futures :
          /\ TerminalFetchError(i)
          /\ raised[i][1] = "Forbidden"
          /\ HasResult(j) /\ Status(j) = "Migrated"
    /\ \E i \in Futures : TerminalFetchError(i) /\ raised[i][1] = "NotFound"

(* ------------------------------- C8 ----------------------------------- *)
\* C8: an update that did not succeed and whose remote calls raised nothing
\* but transient errors was attempted 5 times and ends as an exception held
\* by its future (raised after the retries), not as a returned value.
C8_ExhaustionPropagates ==
    \A i \in Futures :
       (Done(i) /\ raised[i] /= <<>> /\ AllTransient(i)
          /\ ~ (HasResult(i) /\ Status(i) \in {"Migrated", "Skipped"})) =>
             /\ HasException(i)
             /\ outcome[i].msg = FailedAfterRetries
             /\ Len(raised[i]) = retries

(* ------------------------------- C9 ----------------------------------- *)
\* C9: process_csv never crashes; the results list holds, for every value,
\* as many entries as there are collected futures that returned that value,
\* so a future that raised contributes no entry and the others' results are
\* collected as returned; the report, once written, is that list.
C9_RaisedRowDropped ==
    /\ mainpc \in {"submit", "collect", "done"}
    /\ \A k \in 1..Len(results) :
          Count(results, results[k])
            = Cardinality({i \in collected : outcome[i] = Returned(results[k])})
    /\ Len(results) = Cardinality({i \in collected : outcome[i].kind = "result"})
    /\ BatchDone => (report = results /\ collected = Futures)

C9_Witness ==
    /\ BatchDone
    /\ \E i, j \in Futures :
          /\ HasException(i)
          /\ HasResult(j)
    /\ Len(report) = Len(rows) - 1

(* ------------------------------- C10 ---------------------------------- *)
\* the service states the batch is started from in the fair specification
LiveRemotes == { RemoteAt(1), RemoteAt(4) }

LiveInit ==
    /\ rows \in InputFiles
    /\ remote \in LiveRemotes
    /\ mainpc = IF Len(rows) = 0 THEN "collect" ELSE "submit"
    /\ Fresh

\* every remote call returns or raises and every thread that can take a
\* step eventually takes one
FairSpec == LiveInit /\ [][Next]_vars /\ WF_vars(Next)

\* C10: every submitted update eventually completes, every future is
\* eventually collected, and the report ends up written exactly once.
C10_BatchTerminates ==
    <>[](/\ BatchDone
         /\ nwritten = 1
         /\ nsub = Len(rows)
         /\ \A i \in Futures : Done(i) /\ i \in collected)

C10_Witness ==
    /\ BatchDone
    /\ nwritten = 1
    /\ Len(rows) >= 2
    /\ \E i, j \in Futures :
          /\ HasException(i)
          /\ HasResult(j) /\ StartsWith(Status(j), "Error: ")
    /\ \E i \in Futures : HasResult(i) /\ Status(i) \in {"Migrated", "Skipped"}

(* ---------------- the retry wrapper around an arbitrary func ---------- *)
\* retry_with_backoff(retries=5) decorating a func of which nothing is known
\* but that each call returns or raises; rows[1] stands for its arguments
WrapInit ==
    /\ rows = <<RowAt(1)>>
    /\ remote = RemoteAt(1)
    /\ mainpc = "wrapper"
    /\ Fresh

\* wrapper(*args, **kwargs) is called (lines 22-26)
WrapCall(i) ==
    /\ mainpc = "wrapper"
    /\ pc[i] = "unsubmitted"
    /\ attempt' = [attempt EXCEPT ![i] = 0]
    /\ WrapperLoop(i, 0)
    /\ UNCHANGED <<delays, rows, remote, mainpc, nsub, bucket, response,
                   fetchCalls, patchCalls, raised, sleeps, collected, results,
                   report, nwritten, faults>>

\* the value an arbitrary func returns
FuncValue(row) == WithStatus(MakeResponse(row, NoBucket), "Returned")

\* return func(*args, **kwargs) (line 26): the call returns, or raises an
\* exception that the except clause of line 27 catches or lets through
FuncCall(i) ==
    /\ mainpc = "wrapper"
    /\ pc[i] = "fetch"
    /\ \/ /\ pc' = [pc EXCEPT ![i] = "done"]
          /\ outcome' = [outcome EXCEPT ![i] = Returned(FuncValue(rows[i]))]
          /\ UNCHANGED <<attempt, raised, sleeps, delays, calls, bucket, response>>
       \/ \E e \in Errors : Handle(i, e, WrapperDisposition(e))
    /\ UNCHANGED <<rows, remote, mainpc, nsub, fetchCalls, patchCalls,
                   collected, results, report, nwritten, faults>>

WrapNext ==
    \/ \E i \in Futures : WrapCall(i)
    \/ \E i \in Futures : FuncCall(i)

WrapSpec == WrapInit /\ [][WrapNext]_vars

(* ------------------------------- C11 ---------------------------------- *)
\* the snapshot fields of record r are those of the bucket named name as
\* the service holds it, up to the Autoclass properties a patch may have set
\* since the fetch
SnapshotOf(r, name) ==
    /\ remote[name].exists
    /\ r.storage_class = remote[name].storage_class
    /\ r.location = remote[name].location
    /\ r.location_type = remote[name].location_type
    /\ r.requester_pays = remote[name].requester_pays
    /\ r.autoclass_enabled => remote[name].autoclass_enabled
    /\ (r.autoclass_terminal_storage_class = "ARCHIVE") =>
          (remote[name].autoclass_terminal_storage_class = "ARCHIVE")

\* C11: in every interleaving of the pool's workers the response held by an
\* update, and the result it returns, carry the project_id and bucket_name
\* of its own row; their snapshot fields are those of that row's bucket, or
\* all empty in an error row; and a finished batch in which no future raised
\* has one result per row.
C11_NoMixing ==
    /\ \A i \in Futures :
          /\ Fetched(i) =>
                /\ response[i].project_id = rows[i].project_id
                /\ response[i].bucket_name = rows[i].bucket_name
                /\ SnapshotOf(response[i], rows[i].bucket_name)
          /\ HasResult(i) =>
                /\ outcome[i].value.project_id = rows[i].project_id
                /\ outcome[i].value.bucket_name = rows[i].bucket_name
                /\ \/ /\ Status(i) \in {"Migrated", "Skipped"}
                      /\ SnapshotOf(outcome[i].value, rows[i].bucket_name)
                   \/ /\ StartsWith(Status(i), "Error: ")
                      /\ outcome[i].value.storage_class = ""
                      /\ outcome[i].value.location = ""
                      /\ outcome[i].value.location_type = ""
                      /\ outcome[i].value.requester_pays = FALSE
    /\ (BatchDone /\ \A i \in Futures : ~ HasException(i)) =>
          Len(report) = Len(rows)

\* two updates of different buckets are in the pool at once, each between
\* its fetch and its patch, while a third has already returned its result
C11_Witness ==
    \E i, j, k \in Futures :
       /\ rows[i].bucket_name /= rows[j].bucket_name
       /\ pc[i] = "patch" /\ pc[j] = "patch"
       /\ Fetched(i) /\ Fetched(j)
       /\ response[i].storage_class /= response[j].storage_class
       /\ HasResult(k)

(* ------------------------------- C12 ---------------------------------- *)
\* the fetch of the last call of process_bucket for future i failed
FetchFailed(i) == Done(i) /\ raised[i] /= <<>> /\ ~ Fetched(i)

\* C12: an update issues at most one patch, whatever its outcome, and none
\* when its fetch failed; it is called once and fetches once.
C12_AtMostOnePatch ==
    \A i \in Futures :
       /\ patchCalls[i] \in {0, 1}
       /\ patchCalls[i] <= fetchCalls[i]
       /\ FetchFailed(i) => patchCalls[i] = 0
       /\ (Done(i) /\ raised[i] /= <<>> /\ Fetched(i)) => patchCalls[i] = 1

\* one update ended by a transient error of its patch and another by a
\* failed fetch
C12_Witness ==
    \E i, j \in Futures :
       /\ Done(i) /\ Fetched(i)
       /\ Len(raised[i]) = 1 /\ raised[i][1] \in TransientErrors
       /\ patchCalls[i] = 1
       /\ FetchFailed(j) /\ patchCalls[j] = 0

(* ------------------------------- C13 ---------------------------------- *)
\* C13: the k-th sleep of the wrapper, made for attempt index k - 1 with
\* backoff_in_seconds = 1, lasts at least 2^(k-1) seconds and less than one
\* second more, and no sleep is shorter than the one before it, whatever the
\* two jitters.
C13_BackoffMonotone ==
    \A i \in Futures :
       /\ Len(delays[i]) = Len(sleeps[i])
       /\ backoff_in_seconds = 1
       /\ \A k \in 1..Len(delays[i]) :
             /\ delays[i][k] >= Pow2(sleeps[i][k]) * Resolution
             /\ delays[i][k] < (Pow2(sleeps[i][k]) + 1) * Resolution
             /\ sleeps[i][k] = k - 1
             /\ k > 1 => delays[i][k - 1] <= delays[i][k]

\* a sleep with the largest jitter followed by one with the smallest
C13_Witness ==
    \E i \in Futures :
       /\ Len(delays[i]) >= 3
       /\ delays[i][1] = (2 * Resolution) - 1
       /\ delays[i][2] = 2 * Resolution
       /\ delays[i][3] > delays[i][2]

(* ------------------------------- C14 ---------------------------------- *)
\* no call of any update of the batch raised
AllCallsSucceeded == \A i \in Futures : raised[i] = <<>>

\* C14: when the batch is done and no remote call raised, every bucket named
\* by an input row exists at the service with Autoclass on and terminal class
\* ARCHIVE, and every row, also one that names the bucket of another row,
\* has its own result in the report with status Migrated or Skipped.
C14_AllBucketsMigrated ==
    (BatchDone /\ AllCallsSucceeded) =>
       /\ Len(report) = Len(rows)
       /\ \A i \in Futures :
             /\ remote[rows[i].bucket_name].exists
             /\ remote[rows[i].bucket_name].autoclass_enabled = TRUE
             /\ remote[rows[i].bucket_name].autoclass_terminal_storage_class
                  = "ARCHIVE"
             /\ HasResult(i)
             /\ Status(i) \in {"Migrated", "Skipped"}
             /\ IdentityOf(outcome[i].value) = rows[i]
             /\ Count(report, outcome[i].value)
                  = Cardinality({j \in Futures : outcome[j] = outcome[i]})

\* two rows name the same bucket and both updates patched it, each having
\* fetched it before the other's patch
C14_Witness ==
    /\ BatchDone
    /\ AllCallsSucceeded
    /\ \E i, j \in Futures :
          /\ i /= j
          /\ rows[i] = rows[j]
          /\ Status(i) = "Migrated" /\ Status(j) = "Migrated"
          /\ patchCalls[i] = 1 /\ patchCalls[j] = 1

(* ------------------------------- C15 ---------------------------------- *)
\* the calls of func for future i that raised an exception of line 27
FailedAttempts(i) ==
    Cardinality({k \in 1..Len(raised[i]) : raised[i][k] \in TransientErrors})

\* C15: the wrapper calls func at most retries = 5 times, the first call
\* included; the k-th sleep has attempt index k - 1 and there is one sleep per
\* failed attempt; while func runs one more call than sleeps has been made;
\* and once 5 attempts have failed the wrapper raises without a further call.
C15_AtMostRetriesCalls ==
    \A i \in Futures :
       /\ calls[i] <= retries
       /\ retries = 5
       /\ Len(sleeps[i]) = FailedAttempts(i)
       /\ attempt[i] = Len(sleeps[i])
       /\ \A k \in 1..Len(sleeps[i]) : sleeps[i][k] = k - 1
       /\ pc[i] = "fetch" => calls[i] = Len(sleeps[i]) + 1
       /\ (FailedAttempts(i) = retries) =>
             /\ Done(i)
             /\ calls[i] = retries
             /\ outcome[i] = Raised(FailedAfterRetries)
       /\ (Done(i) /\ outcome[i] = Raised(FailedAfterRetries)) =>
             FailedAttempts(i) = retries

\* five attempts failed, five sleeps were made and the wrapper has raised
C15_Witness ==
    \E i \in Futures :
       /\ Done(i)
       /\ calls[i] = 5
       /\ sleeps[i] = <<0, 1, 2, 3, 4>>
       /\ outcome[i] = Raised(FailedAfterRetries)

(* ------------------------------- C16 ---------------------------------- *)
\* the value held by future i carries no snapshot: every property of the
\* bucket is empty or false
EmptySnapshot(i) ==
    /\ outcome[i].value.storage_class = ""
    /\ outcome[i].value.location = ""
    /\ outcome[i].value.location_type = ""
    /\ outcome[i].value.autoclass_enabled = FALSE
    /\ outcome[i].value.autoclass_terminal_storage_class = ""
    /\ outcome[i].value.requester_pays = FALSE

\* the patch of future i was issued after a fetch that returned, and raised
\* an API error
PatchFailed(i) ==
    /\ Done(i)
    /\ Fetched(i)
    /\ patchCalls[i] = 1
    /\ raised[i] /= <<>>
    /\ raised[i][Len(raised[i])] \in TransientErrors \cup TerminalErrors

\* C16: a future holds Migrated only if its own call fetched the bucket,
\* issued one patch and no call of it raised, and then the bucket of its row
\* is enabled with terminal class ARCHIVE at the service; it holds Skipped
\* only if its fetch returned and it issued no patch; and a patch that raised
\* an API error leaves a result whose status starts with "Error: ", that is
\* not Migrated and whose snapshot is empty.
C16_StatusSound ==
    \A i \in Futures :
       /\ (HasResult(i) /\ Status(i) = "Migrated") =>
             /\ Fetched(i)
             /\ fetchCalls[i] = 1
             /\ patchCalls[i] = 1
             /\ raised[i] = <<>>
             /\ remote[rows[i].bucket_name].autoclass_enabled
             /\ remote[rows[i].bucket_name].autoclass_terminal_storage_class
                   = "ARCHIVE"
       /\ (HasResult(i) /\ Status(i) = "Skipped") =>
             /\ Fetched(i)
             /\ fetchCalls[i] = 1
             /\ patchCalls[i] = 0
             /\ raised[i] = <<>>
       /\ PatchFailed(i) =>
             /\ HasResult(i)
             /\ StartsWith(Status(i), "Error: ")
             /\ Status(i) /= "Migrated"
             /\ EmptySnapshot(i)
             /\ IdentityOf(outcome[i].value) = IdentityOf(rows[i])

\* one update's patch raised an API error while another update migrated
C16_Witness ==
    \E i, j \in Futures :
       /\ PatchFailed(i)
       /\ StartsWith(Status(i), "Error: ")
       /\ HasResult(j)
       /\ Status(j) = "Migrated"

(* ------------------------------- C17 ---------------------------------- *)
\* the futures handed to the pool so far
Submitted == { i \in Futures : i <= nsub }

\* C17: at most max_workers updates (20 in the program, scaled here) are
\* executing at any moment; every submitted update that is not executing and
\* has not finished is waiting in the queue, and an update leaves the queue
\* only in a step that starts with a worker free.
C17_PoolBounded ==
    /\ [](/\ Cardinality(Running) <= max_workers
          /\ Running \subseteq Submitted
          /\ \A i \in Submitted : pc[i] \in {"queued", "fetch", "patch", "done"}
          /\ \A i \in Futures \ Submitted : pc[i] = "unsubmitted")
    /\ [][\A i \in Futures :
             (pc[i] = "queued" /\ pc'[i] /= "queued") =>
                 Cardinality(Running) < max_workers]_vars

\* the pool is full and a submitted update is waiting in the queue
C17_Witness ==
    /\ Cardinality(Running) = max_workers
    /\ Queued /= {}
    /\ Len(rows) > max_workers

(* ------------------------------- C18 ---------------------------------- *)
\* the report is written in this step
ReportWritten == nwritten' /= nwritten

\* C18: the futures are submitted in the order of the input rows, one at a
\* time; a result is appended only for a future that had completed before
\* the step and was not yet collected; and the report is written once, in a
\* step before which every row was submitted and every future had completed
\* and been collected, so never while an update is queued or running.
C18_BatchOrdering ==
    /\ [](/\ collected \subseteq { i \in Futures : Done(i) }
          /\ Len(results) = Cardinality({ i \in collected : HasResult(i) })
          /\ nwritten <= 1
          /\ (nwritten = 1) <=> BatchDone
          /\ BatchDone =>
                /\ nsub = Len(rows)
                /\ collected = Futures
                /\ Running = {} /\ Queued = {}
                /\ report = results)
    /\ [][/\ \A i \in Futures :
                (pc[i] = "unsubmitted" /\ pc'[i] /= "unsubmitted") =>
                    /\ i = nsub + 1
                    /\ nsub' = i
                    /\ pc'[i] = "queued"
          /\ results' /= results =>
                \E i \in Futures \ collected :
                    /\ Done(i)
                    /\ collected' = collected \cup {i}
                    /\ results' = Append(results, outcome[i].value)
          /\ ReportWritten =>
                /\ nsub = Len(rows)
                /\ \A i \in Futures : Done(i) /\ i \in collected
                /\ report' = results]_vars

\* the report of a batch of several rows is written, and its first row is
\* the result of the second input row: collection follows completion
C18_Witness ==
    /\ BatchDone
    /\ Len(rows) >= 2
    /\ Len(report) = Len(rows)
    /\ IdentityOf(report[1]) = IdentityOf(rows[2])
    /\ IdentityOf(report[1]) /= IdentityOf(rows[1])

(* ------------------------------- C19 ---------------------------------- *)
\* the properties of a bucket at the service that no update may change
FrameOf(rb) ==
    [exists |-> rb.exists,
     storage_class |-> rb.storage_class,
     location |-> rb.location,
     location_type |-> rb.location_type,
     requester_pays |-> rb.requester_pays]

\* future i ends its update in this step with the given status
EndsWith(i, status) ==
    /\ pc[i] \in {"fetch", "patch"}
    /\ pc'[i] = "done"
    /\ outcome'[i].kind = "result"
    /\ outcome'[i].value.migration_status = status

\* C19: a step changes a bucket at the service only if it is the patch of an
\* update whose row names that bucket and that ends Migrated, and then only
\* the two Autoclass properties of that bucket change; storage_class,
\* location, location_type and requester_pays of every bucket stay as they
\* were; and a step in which an update fetches, ends Skipped or has its fetch
\* fail leaves the whole service state unchanged.
C19_Frame ==
    /\ [](\A b \in BucketNames :
             remote[b].exists =>
                /\ remote[b].storage_class = StaticFields(b).storage_class
                /\ remote[b].location = StaticFields(b).location
                /\ remote[b].location_type = StaticFields(b).location_type
                /\ remote[b].requester_pays = StaticFields(b).requester_pays)
    /\ [][/\ \A b \in BucketNames :
                /\ FrameOf(remote'[b]) = FrameOf(remote[b])
                /\ remote'[b] /= remote[b] =>
                      \E i \in Futures :
                         /\ rows[i].bucket_name = b
                         /\ pc[i] = "patch"
                         /\ patchCalls'[i] = patchCalls[i] + 1
                         /\ EndsWith(i, "Migrated")
                         /\ remote'[b].autoclass_enabled
                         /\ remote'[b].autoclass_terminal_storage_class = "ARCHIVE"
          /\ \A i \in Futures :
                (pc[i] = "fetch" /\ pc'[i] /= "fetch") => remote' = remote
          /\ \A i \in Futures :
                EndsWith(i, "Skipped") => remote' = remote]_vars

\* an update of b2 has migrated it and left its other properties alone, while
\* an update of b1 whose fetch failed left b1 as it was, not migrated
C19_Witness ==
    \E i, j \in Futures :
       /\ HasResult(i)
       /\ Status(i) = "Migrated"
       /\ rows[i].bucket_name = "b2"
       /\ remote["b2"].autoclass_enabled
       /\ remote["b2"].requester_pays
       /\ remote["b2"].storage_class = "COLDLINE"
       /\ rows[j].bucket_name = "b1"
       /\ FetchFailed(j)
       /\ remote["b1"].exists
       /\ ~ remote["b1"].autoclass_enabled

====
